---- MODULE Spec2Model ----
(***************************************************************************)
(* Model of src/src/main.rs: the terrain generator create_mountain_mesh,   *)
(* the interpolator interpolate_random_points it calls, and the UV toggle  *)
(* toggle_texture.                                                         *)
(*                                                                         *)
(* Numbers.  The f32 values of the program are modelled as exact rationals *)
(* kept as integer numerators over a fixed denominator:                    *)
(*   - a lattice value is an integer numerator (unit: one lattice step of  *)
(*     the interval [0,1));                                                *)
(*   - s_polynomial(r/step) is a numerator over step^3;                    *)
(*   - interpolate_random_points returns a numerator over step^6;          *)
(*   - a height y is a numerator over 2*step^6;                            *)
(*   - a vertex's x (z) coordinate is a numerator over x_max (y_max);      *)
(*   - a UV's u is a numerator over x_max, its v over 2*y_max.             *)
(***************************************************************************)
EXTENDS Integers, Sequences, FiniteSets, TLC

VARIABLES
    x_max,              \* main.rs:233
    y_max,              \* main.rs:235
    interpolate_step,   \* main.rs:234
    random_positions,   \* main.rs:216 (the tile the lattice repeats)
    xi,                 \* inner loop counter, main.rs:239
    zi,                 \* outer loop counter, main.rs:238
    vertex_positions,   \* main.rs:227
    collision_heights,  \* main.rs:228
    uv_positions,       \* main.rs:229
    triangles,          \* main.rs:230
    toggle_calls,       \* number of completed toggle_texture calls
    call,               \* last interpolate_random_points call made on its own
    pc                  \* position of the program

vars == <<x_max, y_max, interpolate_step, random_positions, xi, zi,
          vertex_positions, collision_heights, uv_positions, triangles,
          toggle_calls, call, pc>>

---------------------------------------------------------------------------
(* Bounds of the model *)

\* grid sizes x_max, y_max range over 2..MaxDim
MaxDim == 4
\* interpolate_step ranges over 1..MaxStep
MaxStep == 2
\* lattice values range over 0..MaxVal
MaxVal == 1
\* toggle_texture is called at most MaxToggles times
MaxToggles == 2
\* a direct interpolate_random_points call takes xi, yi in 0..MaxArg
MaxArg == 5

(* Program constants *)

\* main.rs:219,221: the lattice is 1000 x 1000
LatticeDim == 1000
\* main.rs:233
X_MAX == 200
\* main.rs:235
Y_MAX == 200
\* main.rs:234
INTERPOLATE_STEP == 20

Values == 0..MaxVal

\* main.rs:216-225: every lattice entry is an independent draw of rng.gen().
\* The model draws the four entries of a 2 x 2 tile independently and repeats
\* the tile over the LatticeDim x LatticeDim lattice, so the four corners of
\* every lattice cell are four independent values.
Lattices == [0..1 -> [0..1 -> Values]]

\* a lattice with one extra row and column beyond x_max / interpolate_step
PointsLenTight(points) == (X_MAX \div INTERPOLATE_STEP) + 1

\* points.len() and points[i].len(), main.rs:219,221
PointsLen(points) == LatticeDim

\* points[i][j], main.rs:199-202: defined only for i, j < 1000
PointAt(points, i, j) == points[i % 2][j % 2]

---------------------------------------------------------------------------
(* interpolate_random_points, main.rs:192-213 *)

\* main.rs:198: |val| 3.0 * (val*val*val) - 2.0 * val*val, with val = r/s;
\* the numerator over s^3
s_polynomial(r, s) == 3 * (r * r * r) - 2 * r * r * s

\* main.rs:205, 207: xi - interpolate_step * (xi / interpolate_step), the
\* numerator of rel_x over interpolate_step
RelOffset(i, s) == i - (s * (i \div s))

CornerIndicesSwapped(i, j, s) ==
    [a |-> << (i \div s) + 1, j \div s >>,
     b |-> << i \div s, j \div s >>,
     c |-> << i \div s, (j \div s) + 1 >>,
     d |-> << (i \div s) + 1, (j \div s) + 1 >>]

\* main.rs:199-202: the lattice indices of rand_a, rand_b, rand_c, rand_d
CornerIndices(i, j, s) ==
    [a |-> << i \div s, j \div s >>,
     b |-> << (i \div s) + 1, j \div s >>,
     c |-> << i \div s, (j \div s) + 1 >>,
     d |-> << (i \div s) + 1, (j \div s) + 1 >>]

\* main.rs:199-202: the set of lattice positions one call reads
LatticeReads(i, j, s) ==
    LET ci == CornerIndices(i, j, s) IN { ci.a, ci.b, ci.c, ci.d }

\* Rust's bounds check on points[..][..]: an index >= len panics
InBounds(points, reads) ==
    \A p \in reads : p[1] < PointsLen(points) /\ p[2] < PointsLen(points)

\* main.rs:209-212: the blend of four corners with the weights sx / s^3 and
\* sy / s^3, as a numerator over s^6
Blend(a, b, c, d, sx, sy, s) ==
    LET den == s * s * s IN
      a * den * den
      + (b - a) * sx * den
      + (c - a) * sy * den
      + (a - b - c + d) * sx * sy

\* main.rs:192-213, the value returned (numerator over s^6)
interpolate_random_points(points, i, j, s) ==
    LET ci == CornerIndices(i, j, s)
        rand_a == PointAt(points, ci.a[1], ci.a[2])
        rand_b == PointAt(points, ci.b[1], ci.b[2])
        rand_c == PointAt(points, ci.c[1], ci.c[2])
        rand_d == PointAt(points, ci.d[1], ci.d[2])
        rel_x == RelOffset(i, s)
        rel_y == RelOffset(j, s)
    IN Blend(rand_a, rand_b, rand_c, rand_d,
             s_polynomial(rel_x, s), s_polynomial(rel_y, s), s)

---------------------------------------------------------------------------
(* create_mountain_mesh, main.rs:215-301 *)

\* main.rs:240-247: y = interpolate(xi, zi) + 0.5 * interpolate(2 xi, 2 zi),
\* the numerator over 2 * step^6
Height(points, i, j, s) ==
    2 * interpolate_random_points(points, i, j, s)
    + interpolate_random_points(points, i * 2, j * 2, s)

\* main.rs:240-247: the lattice positions read for cell (i, j)
CellReads(i, j, s) == LatticeReads(i, j, s) \cup LatticeReads(i * 2, j * 2, s)

CollisionHeightSame(y) == y

\* main.rs:249: collision_heights.push(-y)
CollisionHeight(y) == -y

\* main.rs:251-255: [xi/x_max*4 - 2, y, zi/y_max*4 - 2]; x over xm, z over ym
VertexPosition(i, j, y, xm, ym) == << 4 * i - 2 * xm, y, 4 * j - 2 * ym >>

\* main.rs:256: [xi/x_max, zi/y_max]; u over xm, v over 2*ym
UvPosition(i, j, xm, ym) == << i, 2 * j >>

last_indexOffByOne(xm, ym) == xm * ym

\* main.rs:236
last_index(xm, ym) == (xm * ym) - 1

\* main.rs:260-276: the indices appended to triangles for loop cell (i, j).
\* The `as u32` casts keep every value: an index is at most
\* (x_max + 1) * y_max, far below 2^32.
QuadIndices(i, j, xm, ym) ==
    LET index == i * ym + j
        index_right == (i + 1) * ym + j
        index_down == i * ym + j + 1
        index_down_right == (i + 1) * ym + j + 1
    IN IF index_down_right <= last_index(xm, ym)
       THEN << index, index_right, index_down_right,
               index, index_down_right, index_down >>
       ELSE << >>

\* One iteration of the loop body, main.rs:239-277, for cell (xi, zi); the
\* loop counters advance as `for zi in 0..y_max { for xi in 0..x_max`.
LoopBody ==
    /\ pc = "loop"
    /\ zi < y_max
    /\ IF ~InBounds(random_positions, CellReads(xi, zi, interpolate_step))
       THEN /\ pc' = "panic"
            /\ UNCHANGED <<xi, zi, vertex_positions, collision_heights,
                           uv_positions, triangles>>
       ELSE LET y == Height(random_positions, xi, zi, interpolate_step) IN
            /\ collision_heights' = Append(collision_heights, CollisionHeight(y))
            /\ vertex_positions' =
                 Append(vertex_positions, VertexPosition(xi, zi, y, x_max, y_max))
            /\ uv_positions' = Append(uv_positions, UvPosition(xi, zi, x_max, y_max))
            /\ triangles' = triangles \o QuadIndices(xi, zi, x_max, y_max)
            /\ IF xi + 1 < x_max
               THEN xi' = xi + 1 /\ zi' = zi
               ELSE xi' = 0 /\ zi' = zi + 1
            /\ pc' = pc
    /\ UNCHANGED <<x_max, y_max, interpolate_step, random_positions,
                   toggle_calls, call>>

\* main.rs:281-300: the loops are over; the buffers are handed to
\* Collider::heightfield and Mesh::new
Return ==
    /\ pc = "loop"
    /\ zi = y_max
    /\ pc' = "done"
    /\ UNCHANGED <<x_max, y_max, interpolate_step, random_positions, xi, zi,
                   vertex_positions, collision_heights, uv_positions,
                   triangles, toggle_calls, call>>

\* main.rs:304: fn toggle_texture(mesh_to_change: &mut Mesh) {} -- the body is
\* empty, the mesh is left as it is
toggle_texture ==
    /\ pc = "done"
    /\ toggle_calls < MaxToggles
    /\ toggle_calls' = toggle_calls + 1
    /\ UNCHANGED <<x_max, y_max, interpolate_step, random_positions, xi, zi,
                   vertex_positions, collision_heights, uv_positions,
                   triangles, call, pc>>

NoCall == [made |-> FALSE]

\* main.rs:216-236: the state when the loops start
Init ==
    /\ x_max \in 2..MaxDim
    /\ y_max \in 2..MaxDim
    /\ interpolate_step \in 1..MaxStep
    /\ random_positions \in Lattices
    /\ xi = 0
    /\ zi = 0
    /\ vertex_positions = << >>
    /\ collision_heights = << >>
    /\ uv_positions = << >>
    /\ triangles = << >>
    /\ toggle_calls = 0
    /\ call = NoCall
    /\ pc = "loop"

Next == LoopBody \/ Return \/ toggle_texture

Spec == Init /\ [][Next]_vars

---------------------------------------------------------------------------
(* interpolate_random_points called on its own *)

\* main.rs:192-213: one call interpolate_random_points(&random_positions,
\* i, j, interpolate_step); an out-of-range lattice index panics
CallInterpolate ==
    /\ pc = "interp"
    /\ \E i \in 0..MaxArg, j \in 0..MaxArg :
         IF ~InBounds(random_positions, LatticeReads(i, j, interpolate_step))
         THEN pc' = "panic" /\ UNCHANGED call
         ELSE /\ call' = [made |-> TRUE, xi |-> i, yi |-> j,
                          ret |-> interpolate_random_points(
                                     random_positions, i, j, interpolate_step)]
              /\ pc' = pc
    /\ UNCHANGED <<x_max, y_max, interpolate_step, random_positions, xi, zi,
                   vertex_positions, collision_heights, uv_positions,
                   triangles, toggle_calls>>

InitInterp ==
    /\ x_max = 2
    /\ y_max = 2
    /\ interpolate_step \in 1..MaxStep
    /\ random_positions \in Lattices
    /\ xi = 0
    /\ zi = 0
    /\ vertex_positions = << >>
    /\ collision_heights = << >>
    /\ uv_positions = << >>
    /\ triangles = << >>
    /\ toggle_calls = 0
    /\ call = NoCall
    /\ pc = "interp"

NextInterp == CallInterpolate

SpecInterp == InitInterp /\ [][NextInterp]_vars

---------------------------------------------------------------------------
(* The lattice accesses of create_mountain_mesh at its configured size *)

\* main.rs:238-247 with x_max = y_max = 200, interpolate_step = 20: the loop
\* of create_mountain_mesh restricted to its lattice reads (the two
\* interpolate_random_points calls of one cell) and its loop counters.  The
\* four output buffers, 40000 entries long at this size, are not built.
LatticeAccessStep ==
    /\ pc = "scan"
    /\ zi < y_max
    /\ IF ~InBounds(random_positions, CellReads(xi, zi, interpolate_step))
       THEN pc' = "panic" /\ UNCHANGED <<xi, zi>>
       ELSE /\ IF xi + 1 < x_max
               THEN xi' = xi + 1 /\ zi' = zi
               ELSE xi' = 0 /\ zi' = zi + 1
            /\ pc' = pc
    /\ UNCHANGED <<x_max, y_max, interpolate_step, random_positions,
                   vertex_positions, collision_heights, uv_positions,
                   triangles, toggle_calls, call>>

\* main.rs:278: both loops are over
ScanReturn ==
    /\ pc = "scan"
    /\ zi = y_max
    /\ pc' = "scanned"
    /\ UNCHANGED <<x_max, y_max, interpolate_step, random_positions, xi, zi,
                   vertex_positions, collision_heights, uv_positions,
                   triangles, toggle_calls, call>>

\* main.rs:216-236 with the constants of the source
InitCfg ==
    /\ x_max = X_MAX
    /\ y_max = Y_MAX
    /\ interpolate_step = INTERPOLATE_STEP
    /\ random_positions \in { [i \in 0..1 |-> [j \in 0..1 |-> v]] : v \in Values }
    /\ xi = 0
    /\ zi = 0
    /\ vertex_positions = << >>
    /\ collision_heights = << >>
    /\ uv_positions = << >>
    /\ triangles = << >>
    /\ toggle_calls = 0
    /\ call = NoCall
    /\ pc = "scan"

NextCfg == LatticeAccessStep \/ ScanReturn

SpecCfg == InitCfg /\ [][NextCfg]_vars

---------------------------------------------------------------------------
(* Properties *)

\* the quads in the index buffer, numbered from 0
Quads == 0..((Len(triangles) \div 6) - 1)

\* the anchor cell (column index xi, row index zi) a flat index
\* xi * y_max + zi stands for
AnchorOf(idx) == << idx \div y_max, idx % y_max >>

\* the anchors of the quads in the index buffer
EmittedAnchors == { AnchorOf(triangles[6 * q + 1]) : q \in Quads }

\* the anchors whose right, down and down_right neighbours are in the grid
InteriorAnchors == (0..(x_max - 2)) \X (0..(y_max - 2))

\* C1: when create_mountain_mesh returns, the index buffer holds exactly
\* 6*(x_max-1)*(y_max-1) indices, one quad for each anchor (xi, zi) with
\* xi < x_max-1 and zi < y_max-1 and none for the last row or column.
C1_TriangleCount ==
    pc = "done" =>
        /\ Len(triangles) = 6 * (x_max - 1) * (y_max - 1)
        /\ EmittedAnchors = InteriorAnchors

\* C2: every emitted quad is anchored at a cell (xi, zi) with xi+1 < x_max
\* and zi+1 < y_max, so no triangle uses a flat index that wraps from the end
\* of one grid line to the start of the next.
C2_NoWraparound ==
    \A a \in EmittedAnchors : a[1] + 1 < x_max /\ a[2] + 1 < y_max

\* the grid cell (xi, zi) a stored vertex was generated for, read back from
\* its x and z coordinates
CellOfVertex(v) == << (v[1] + 2 * x_max) \div 4, (v[3] + 2 * y_max) \div 4 >>

\* C3: the vertex generated for cell (xi, zi) is stored at position-buffer
\* slot xi*y_max + zi, the flat index the triangle arithmetic uses for it.
C3_SlotMatchesIndexFormula ==
    \A k \in DOMAIN vertex_positions :
        LET c == CellOfVertex(vertex_positions[k])
        IN k - 1 = c[1] * y_max + c[2]

\* C4: when create_mountain_mesh returns, collision_heights and
\* vertex_positions both have length x_max*y_max and collision_heights[i] is
\* the negation of the height component of vertex_positions[i], for every i.
C4_ColliderNegatesHeights ==
    pc = "done" =>
        /\ Len(collision_heights) = x_max * y_max
        /\ Len(vertex_positions) = x_max * y_max
        /\ \A k \in 1..(x_max * y_max) :
               collision_heights[k] = -(vertex_positions[k][2])

C4_Witness ==
    /\ pc = "done"
    /\ \E k \in DOMAIN vertex_positions : vertex_positions[k][2] > 0

\* the ease curve S(t) = 3t^2 - 2t^3 at t = r/s, as a numerator over s^3
Smoothstep(r, s) == 3 * r * r * s - 2 * r * r * r

\* C5: interpolate_random_points returns the blend of its four corners with
\* the weights S(rel_x), S(rel_y), S(t) = 3t^2 - 2t^3.
C5_EaseIsSmoothstep ==
    call.made =>
        LET s == interpolate_step
            ci == CornerIndices(call.xi, call.yi, s)
        IN call.ret = Blend(PointAt(random_positions, ci.a[1], ci.a[2]),
                            PointAt(random_positions, ci.b[1], ci.b[2]),
                            PointAt(random_positions, ci.c[1], ci.c[2]),
                            PointAt(random_positions, ci.d[1], ci.d[2]),
                            Smoothstep(call.xi % s, s),
                            Smoothstep(call.yi % s, s), s)

\* s^6, the denominator of a value returned by interpolate_random_points
RetDen(s) == s * s * s * s * s * s

\* C6: interpolate_random_points(lattice, k*step, m*step, step) is exactly
\* lattice[k][m], whatever the other three corners are.
C6_LatticeNodeExact ==
    call.made =>
        \A k \in 0..MaxArg, m \in 0..MaxArg :
            (call.xi = k * interpolate_step /\ call.yi = m * interpolate_step)
            => call.ret = PointAt(random_positions, k, m) * RetDen(interpolate_step)

C6_Witness ==
    /\ call.made
    /\ interpolate_step = 2
    /\ call.xi = 2
    /\ call.yi = 4
    /\ random_positions[1][0] = 1
    /\ random_positions[0][0] = 0
    /\ random_positions[1][1] = 0
    /\ call.ret = RetDen(2)

\* C7: every index in the triangle buffer is below x_max*y_max, the number
\* of vertices create_mountain_mesh produces.
C7_IndicesInRange ==
    \A k \in DOMAIN triangles : triangles[k] < x_max * y_max

C7_Witness ==
    /\ pc = "done"
    /\ \E k \in DOMAIN triangles : triangles[k] = x_max * y_max - 1

\* twice the signed area, in the horizontal (x, z) plane, of the triangle
\* whose three corners are the vertices at indices i0, i1, i2
SignedArea(i0, i1, i2) ==
    LET p0 == vertex_positions[i0 + 1]
        p1 == vertex_positions[i1 + 1]
        p2 == vertex_positions[i2 + 1]
    IN (p1[1] - p0[1]) * (p2[3] - p0[3]) - (p2[1] - p0[1]) * (p1[3] - p0[3])

Sign(n) == IF n > 0 THEN 1 ELSE IF n < 0 THEN -1 ELSE 0

\* the triangles in the index buffer, numbered from 0
Tris == 0..((Len(triangles) \div 3) - 1)

TriSign(t) ==
    Sign(SignedArea(triangles[3 * t + 1], triangles[3 * t + 2], triangles[3 * t + 3]))

\* C8: when create_mountain_mesh returns, all triangles of the index buffer
\* have the same winding: their signed areas in the (x, z) plane, taken from
\* the position buffer, share one sign.
C8_ConsistentWinding ==
    pc = "done" => \A t \in Tris, u \in Tris : TriSign(t) = TriSign(u)

\* the UV the toggle is to produce: v + 0.5 when v + 0.5 < 1.0, else v - 0.5
\* (v is a numerator over 2*y_max)
ToggledUv(uv) ==
    << uv[1], IF uv[2] + y_max < 2 * y_max THEN uv[2] + y_max ELSE uv[2] - y_max >>

\* C9: a call of toggle_texture moves every UV's v by half (v + 0.5 when
\* v + 0.5 < 1.0, v - 0.5 otherwise) and leaves u and the other buffers alone.
C9_ToggleShiftsV ==
    [][toggle_calls' # toggle_calls =>
          /\ uv_positions' = [k \in DOMAIN uv_positions |-> ToggledUv(uv_positions[k])]
          /\ UNCHANGED <<vertex_positions, collision_heights, triangles>>]_vars

\* C10: at the configured size no lattice read of create_mountain_mesh is out
\* of bounds: the loop never panics, and for the cell about to be processed
\* the largest indices read, (2*xi)/step + 1 and (2*zi)/step + 1, are below
\* the lattice dimension.
C10_LatticeReadsInBounds ==
    /\ pc # "panic"
    /\ (pc = "scan" /\ zi < y_max) =>
          /\ ((2 * xi) \div interpolate_step) + 1 < LatticeDim
          /\ ((2 * zi) \div interpolate_step) + 1 < LatticeDim
          /\ \A p \in CellReads(xi, zi, interpolate_step) :
                 p[1] < LatticeDim /\ p[2] < LatticeDim

C10_Witness ==
    /\ pc = "scanned"
    /\ x_max = 200
    /\ y_max = 200
    /\ interpolate_step = 20
    /\ << 20, 20 >> \in CellReads(x_max - 1, y_max - 1, interpolate_step)

====
